---- MODULE Spec2Model ----
(***************************************************************************)
(* Model of the capstone_finance simulation core: the withdrawal policies  *)
(* (strategies/*.py), the cash-flow engine (core/ledger.py) and the return *)
(* generator (core/market.py).                                             *)
(*                                                                         *)
(* Numbers.  The program computes in IEEE doubles; the model computes in   *)
(* fixed point: money is a whole number of dollars, every rate, fraction   *)
(* and market return is a whole number of basis points (1/10000), and a    *)
(* product with a fraction is rounded down (MulDiv).                       *)
(* An Optional value is a sequence of length 0 (None) or 1.                *)
(***************************************************************************)
EXTENDS Integers, Sequences, FiniteSets, TLC

VARIABLES
    params,        \* PortfolioParams of the run / of the policy calls
    strategy,      \* the withdrawal-policy instance (its fields)
    lastcall,      \* harness: argument and outcome of the last direct policy call
    call_log,      \* harness: Optional balance passed to each direct policy call
    tax_engine,    \* name of the tax function handed to the engine
    mode,          \* "run" (CashFlowLedger.run) or "vectorized"
    pc,            \* position of the engine: "start", "loop", "done"
    returns,       \* returns matrix of the run (paths x years, basis points)
    path_idx,      \* engine loop variables
    year_idx,
    balance,
    path_results,  \* CashFlowLedger.run: the YearStates of the current path
    results,       \* CashFlowLedger.run: list of lists of YearState
    balances,      \* run_simulation_vectorized: (paths, years) matrix
    trace,         \* harness: calls the engine made to its collaborators
    np_random,     \* state of numpy's global legacy generator
    sims           \* the MarketSimulator instances

policyVars == <<params, strategy, lastcall, call_log>>
engineVars == <<tax_engine, mode, pc, returns, path_idx, year_idx, balance,
                path_results, results, balances, trace>>
marketVars == <<np_random, sims>>
vars == <<params, strategy, lastcall, call_log, tax_engine, mode, pc, returns,
          path_idx, year_idx, balance, path_results, results, balances, trace,
          np_random, sims>>

----------------------------------------------------------------------------
(* Fixed-point arithmetic *)

BPS == 10000

Max(a, b) == IF a >= b THEN a ELSE b

Min(a, b) == IF a <= b THEN a ELSE b

Abs(a) == IF a >= 0 THEN a ELSE 0 - a

\* floor(x * num / den) for den > 0, computed without a large intermediate product
MulDiv(x, num, den) == (x \div den) * num + ((x % den) * num) \div den

RECURSIVE SumSeq(_)
SumSeq(s) == IF s = <<>> THEN 0 ELSE Head(s) + SumSeq(Tail(s))

None == <<>>

Some(v) == <<v>>

----------------------------------------------------------------------------
(* core/models.py *)

YearState(year, age, bal, inflation, withdrawal_nominal) ==
    [year |-> year, age |-> age, balance |-> bal, inflation |-> inflation,
     withdrawal_nominal |-> withdrawal_nominal]

\* Field constraints of YearState: only age is constrained (ge=0)
YearState_valid(s) == s.age >= 0

PortfolioParams(init_balance, equity_pct, fees_bps, seed) ==
    [init_balance |-> init_balance, equity_pct |-> equity_pct,
     fees_bps |-> fees_bps, seed |-> seed]

\* init_balance gt 0, equity_pct in [0, 1], fees_bps ge 0
PortfolioParams_valid(p) ==
    /\ p.init_balance > 0
    /\ p.equity_pct >= 0 /\ p.equity_pct <= BPS
    /\ p.fees_bps >= 0

----------------------------------------------------------------------------
(* strategies: construction *)

\* Attributes of a policy object; a class leaves the attributes of the
\* other classes at these values.
BlankStrategy ==
    [kind |-> "", _needs_full_state |-> FALSE,
     percentage |-> 0,
     alpha |-> 0, beta |-> 0, window |-> 0, portfolio_history |-> <<>>,
     initial_rate |-> 0, guard_pct |-> 0, raise_pct |-> 0, cut_pct |-> 0,
     upper_guardrail |-> 0, lower_guardrail |-> 0,
     _base_withdrawal |-> None, _cumulative_inflation |-> BPS, _last_year |-> None,
     vpw_tables |-> <<>>,
     withdrawal_amount |-> 0]

DummyStrategy == [BlankStrategy EXCEPT !.kind = "DummyStrategy"]

FourPercentRule == [BlankStrategy EXCEPT !.kind = "FourPercentRule"]

ConstantPercentageStrategy(percentage) ==
    [BlankStrategy EXCEPT !.kind = "ConstantPercentageStrategy",
                          !.percentage = percentage]

EndowmentStrategy(alpha, beta, window) ==
    [BlankStrategy EXCEPT !.kind = "EndowmentStrategy",
                          !.alpha = alpha, !.beta = beta, !.window = window,
                          !.portfolio_history = <<>>]

GuytonKlingerStrategy(initial_rate, guard_pct, raise_pct, cut_pct) ==
    [BlankStrategy EXCEPT !.kind = "GuytonKlingerStrategy",
                          !.initial_rate = initial_rate, !.guard_pct = guard_pct,
                          !.raise_pct = raise_pct, !.cut_pct = cut_pct,
                          !.upper_guardrail = MulDiv(initial_rate, BPS + guard_pct, BPS),
                          !.lower_guardrail = MulDiv(initial_rate, BPS - guard_pct, BPS),
                          !._base_withdrawal = None,
                          !._cumulative_inflation = BPS,
                          !._last_year = None]

\* The policy of tests/core/test_ledger.py: the only one that sets _needs_full_state
FixedWithdrawalStrategy(withdrawal_amount) ==
    [BlankStrategy EXCEPT !.kind = "FixedWithdrawalStrategy",
                          !._needs_full_state = TRUE,
                          !.withdrawal_amount = withdrawal_amount]

----------------------------------------------------------------------------
(* strategies: parameter checks of the constructors.  The parameters are    *)
(* floats: NaN is one of them, and every comparison with NaN is false.      *)

NaN == 0 - 99999

isnan(x) == x = NaN

\* a < b and a > b on floats
lt(a, b) == ~isnan(a) /\ ~isnan(b) /\ a < b

gt(a, b) == ~isnan(a) /\ ~isnan(b) /\ a > b

\* The outcome of a constructor call: the new object, or the exception and no object
Constructed(self) == [self |-> self, ret |-> 0, raised |-> ""]

Rejected(exc) == [self |-> BlankStrategy, ret |-> 0, raised |-> exc]

ConstantPercentageStrategy_init(percentage) ==
    IF lt(percentage, 0) THEN Rejected("ValueError")
    ELSE IF gt(percentage, BPS) THEN Rejected("ValueError")
    ELSE Constructed(ConstantPercentageStrategy(percentage))

\* abs(alpha + beta - 1.0) > 1e-10: the tolerance is below one basis point, so in
\* basis points the test is for a difference other than 0
EndowmentStrategy_init(alpha, beta, window) ==
    LET diff == IF isnan(alpha) \/ isnan(beta) THEN NaN ELSE Abs(alpha + beta - BPS)
    IN  IF lt(alpha, 0) \/ gt(alpha, BPS) THEN Rejected("ValueError")
        ELSE IF lt(beta, 0) \/ gt(beta, BPS) THEN Rejected("ValueError")
        ELSE IF gt(diff, 0) THEN Rejected("ValueError")
        ELSE IF window < 1 THEN Rejected("ValueError")
        ELSE Constructed(EndowmentStrategy(alpha, beta, window))

\* not 0 < x < 1
GuytonKlingerStrategy_init(initial_rate, guard_pct, raise_pct, cut_pct) ==
    IF ~(lt(0, initial_rate) /\ lt(initial_rate, BPS)) THEN Rejected("ValueError")
    ELSE IF ~(lt(0, guard_pct) /\ lt(guard_pct, BPS)) THEN Rejected("ValueError")
    ELSE IF ~(lt(0, raise_pct) /\ lt(raise_pct, BPS)) THEN Rejected("ValueError")
    ELSE IF ~(lt(0, cut_pct) /\ lt(cut_pct, BPS)) THEN Rejected("ValueError")
    ELSE Constructed(GuytonKlingerStrategy(initial_rate, guard_pct, raise_pct, cut_pct))

----------------------------------------------------------------------------
(* A Python dict is a sequence of entries [k, v] in insertion order *)

DictKeys(d) == [i \in 1..Len(d) |-> d[i].k]

DictHas(d, key) == \E i \in 1..Len(d) : d[i].k = key

DictGet(d, key) == d[CHOOSE i \in 1..Len(d) : d[i].k = key].v

\* d[key] = value: a present key keeps its place, a new key goes last
DictSet(d, key, value) ==
    IF DictHas(d, key)
    THEN [i \in 1..Len(d) |-> IF d[i].k = key THEN [k |-> key, v |-> value] ELSE d[i]]
    ELSE Append(d, [k |-> key, v |-> value])

\* Keys of a dict are ints or strings of digits.  The string "n" is written
\* StrKey(n): a value distinct from every int key, so that "60" # 60 as in Python
StrOffset == 1000

StrKey(n) == StrOffset + n

\* isinstance(key, str)
isinstance_str(key) == key >= StrOffset

\* int(key)
int(key) == IF isinstance_str(key) THEN key - StrOffset ELSE key

SeqToSet(s) == {s[i] : i \in 1..Len(s)}

SetMin(S) == CHOOSE x \in S : \A y \in S : x <= y

SetMax(S) == CHOOSE x \in S : \A y \in S : x >= y

RECURSIVE sorted(_)
sorted(S) == IF S = {} THEN <<>> ELSE <<SetMin(S)>> \o sorted(S \ {SetMin(S)})

----------------------------------------------------------------------------
(* strategies/vpw.py: tables.  A table rate is on the 0-10 percent scale;  *)
(* the model holds it in hundredths of a percent (3.0 is 300).             *)

VPW_ROW_20 ==
    <<30, 30, 31, 31, 32, 32, 33, 33, 34, 34, 35, 36, 36, 37, 38, 39, 40,
      41, 42, 43, 44, 45, 46, 48, 49, 50, 52, 53, 55, 56, 58, 60, 62, 64,
      66, 68, 71, 73, 76, 79, 82, 85, 88, 92, 96, 100, 100, 100, 100, 100, 100>>

VPW_ROW_40 ==
    <<27, 27, 28, 28, 29, 29, 30, 30, 31, 31, 32, 32, 33, 34, 34, 35, 36,
      37, 38, 39, 40, 41, 42, 43, 44, 45, 47, 48, 49, 51, 52, 54, 56, 58,
      60, 62, 64, 66, 69, 72, 75, 78, 81, 85, 89, 93, 97, 100, 100, 100, 100>>

VPW_ROW_60 ==
    <<25, 25, 26, 26, 26, 27, 27, 28, 28, 29, 29, 30, 30, 31, 31, 32, 33,
      33, 34, 35, 36, 37, 38, 39, 40, 41, 42, 43, 44, 46, 47, 49, 50, 52,
      54, 56, 58, 60, 63, 65, 68, 71, 74, 78, 82, 86, 90, 95, 100, 100, 100>>

VPW_ROW_80 ==
    <<23, 23, 24, 24, 24, 25, 25, 25, 26, 26, 27, 27, 28, 28, 29, 29, 30,
      30, 31, 32, 33, 33, 34, 35, 36, 37, 38, 39, 40, 41, 42, 44, 45, 47,
      48, 50, 52, 54, 56, 59, 61, 64, 67, 71, 74, 78, 83, 88, 93, 98, 100>>

\* The age table of one allocation: ages 45..95 in order, rates given in tenths of a percent
AgeTable(row) == [i \in 1..Len(row) |-> [k |-> 44 + i, v |-> 10 * row[i]]]

DEFAULT_VPW_TABLES ==
    << [k |-> 20, v |-> AgeTable(VPW_ROW_20)],
       [k |-> 40, v |-> AgeTable(VPW_ROW_40)],
       [k |-> 60, v |-> AgeTable(VPW_ROW_60)],
       [k |-> 80, v |-> AgeTable(VPW_ROW_80)] >>

\* VariablePercentageWithdrawal(): no path, no custom table
VariablePercentageWithdrawal ==
    [BlankStrategy EXCEPT !.kind = "VariablePercentageWithdrawal",
                          !.vpw_tables = DEFAULT_VPW_TABLES]

\* _load_custom_table: the mapping read from the YAML file, string keys of both
\* levels converted to int, entry by entry in file order
RECURSIVE ConvertKeys(_, _)
ConvertKeys(d, n) ==
    IF n = 0 THEN <<>>
    ELSE DictSet(ConvertKeys(d, n - 1), int(d[n].k), d[n].v)

_load_custom_table(data) ==
    LET ages == [i \in 1..Len(data) |->
                    [k |-> data[i].k, v |-> ConvertKeys(data[i].v, Len(data[i].v))]]
    IN  ConvertKeys(ages, Len(ages))

\* VariablePercentageWithdrawal(vpw_table_path, custom_table): both Optional;
\* vpw_table_path stands for the mapping stored in the file at that path
VariablePercentageWithdrawal_init(vpw_table_path, custom_table) ==
    [VariablePercentageWithdrawal EXCEPT
        !.vpw_tables = IF vpw_table_path # None THEN _load_custom_table(vpw_table_path[1])
                       ELSE IF custom_table # None THEN custom_table[1]
                       ELSE DEFAULT_VPW_TABLES]

----------------------------------------------------------------------------
(* Outcome of a call: the object after the call and either the returned    *)
(* value or the exception that left the call.                              *)

Return(self, value) == [self |-> self, ret |-> value, raised |-> ""]

Raise(self, exc) == [self |-> self, ret |-> 0, raised |-> exc]

----------------------------------------------------------------------------
(* strategies/vpw.py: lookup *)

\* min(int_keys, key=lambda x: abs(x - equity_percentage)): the first closest key
ClosestKey(keys, target) ==
    keys[CHOOSE i \in 1..Len(keys) :
            /\ \A j \in 1..Len(keys) : Abs(keys[i] - target) <= Abs(keys[j] - target)
            /\ \A j \in 1..(i - 1) : Abs(keys[j] - target) > Abs(keys[i] - target)]

\* Mutant: an empty table set answered with the 60 key instead of an error
_get_equity_allocation_key_Default60(self, equity_pct) ==
    LET equity_percentage == equity_pct \div 100
        available_keys == DictKeys(self.vpw_tables)
        int_keys == [i \in 1..Len(available_keys) |-> int(available_keys[i])]
    IN  IF Len(available_keys) = 0
        THEN Return(self, 60)
        ELSE Return(self, ClosestKey(int_keys, equity_percentage))

_get_equity_allocation_key(self, equity_pct) ==
    LET equity_percentage == equity_pct \div 100
        available_keys == DictKeys(self.vpw_tables)
        int_keys == [i \in 1..Len(available_keys) |-> int(available_keys[i])]
    IN  IF Len(available_keys) = 0
        THEN Raise(self, "ValueError")
        ELSE Return(self, ClosestKey(int_keys, equity_percentage))

\* The first pair of neighbouring sorted ages that brackets the age
Bracket(ages, age) ==
    CHOOSE i \in 1..(Len(ages) - 1) :
        /\ ages[i] <= age /\ age <= ages[i + 1]
        /\ \A j \in 1..(i - 1) : ~(ages[j] <= age /\ age <= ages[j + 1])

\* Result is a fraction in basis points: min(rate, 10.0) / 100.0
_get_withdrawal_percentage(self, age, equity_allocation_key) ==
    IF ~DictHas(self.vpw_tables, equity_allocation_key)
    THEN Raise(self, "KeyError")
    ELSE
    LET age_table == DictGet(self.vpw_tables, equity_allocation_key)
        keys == SeqToSet(DictKeys(age_table))
        ages == sorted(keys)
    IN  IF DictHas(age_table, age)
        THEN Return(self, Min(DictGet(age_table, age), 1000))
        ELSE IF keys = {}
        THEN Raise(self, "ValueError")
        ELSE IF \E key \in keys : isinstance_str(key)
        THEN Raise(self, "TypeError")
        ELSE IF age < SetMin(keys)
        THEN Return(self, Min(DictGet(age_table, SetMin(keys)), 1000))
        ELSE IF age > SetMax(keys)
        THEN Return(self, Min(DictGet(age_table, SetMax(keys)), 1000))
        ELSE IF \E i \in 1..(Len(ages) - 1) : ages[i] <= age /\ age <= ages[i + 1]
        THEN LET i == Bracket(ages, age)
                 lower_age == ages[i]
                 upper_age == ages[i + 1]
                 lower_rate == DictGet(age_table, lower_age)
                 upper_rate == DictGet(age_table, upper_age)
                 interpolated_rate ==
                     lower_rate + MulDiv(upper_rate - lower_rate, age - lower_age,
                                         upper_age - lower_age)
             IN  Return(self, Min(interpolated_rate, 1000))
        ELSE Return(self, 400)

----------------------------------------------------------------------------
(* strategies: calculate_withdrawal.  state is an Optional YearState. *)

\* Mutant: a withdrawal of one dollar
Dummy_calculate_withdrawal_OneDollar(self, state, p) == Return(self, 1)

Dummy_calculate_withdrawal(self, state, p) == Return(self, 0)

\* Mutant: the withdrawal taken from the current balance of the state
FourPercent_calculate_withdrawal_OfBalance(self, state, p) ==
    IF state = None
    THEN Return(self, MulDiv(p.init_balance, 400, BPS))
    ELSE Return(self, MulDiv(MulDiv(state[1].balance, 400, BPS),
                             BPS + state[1].inflation, BPS))

FourPercent_calculate_withdrawal(self, state, p) ==
    LET base_withdrawal == MulDiv(p.init_balance, 400, BPS)
    IN  IF state = None
        THEN Return(self, base_withdrawal)
        ELSE Return(self, MulDiv(base_withdrawal, BPS + state[1].inflation, BPS))

ConstantPercentage_calculate_withdrawal(self, state, p) ==
    IF state = None
    THEN Return(self, MulDiv(p.init_balance, self.percentage, BPS))
    ELSE Return(self, MulDiv(state[1].balance, self.percentage, BPS))

\* Mutant: a history that never evicts
DequeAppend_Unbounded(dq, maxlen, x) == dq \o <<x>>

\* deque(maxlen=window).append: the oldest entry leaves when the deque is full
DequeAppend(dq, maxlen, x) ==
    IF Len(dq) >= maxlen THEN Tail(dq) \o <<x>> ELSE dq \o <<x>>

Endowment_calculate_withdrawal(self, state, p) ==
    LET current_balance == IF state = None THEN p.init_balance ELSE state[1].balance
        portfolio_history ==
            IF state = None
            THEN DequeAppend(<<>>, self.window, current_balance)
            ELSE DequeAppend(self.portfolio_history, self.window, current_balance)
        moving_average ==
            IF Len(portfolio_history) = 0
            THEN current_balance
            ELSE SumSeq(portfolio_history) \div Len(portfolio_history)
        withdrawal == MulDiv(current_balance, self.alpha, BPS)
                        + MulDiv(moving_average, self.beta, BPS)
    IN  Return([self EXCEPT !.portfolio_history = portfolio_history], withdrawal)

\* Mutant of ConsecutiveYear: inflation compounds on every call
ConsecutiveYear_Always(self, st) == TRUE

\* First year with a state, or the year after the last one seen
ConsecutiveYear(self, st) ==
    \/ self._last_year = None
    \/ /\ self._last_year # None
       /\ st.year = self._last_year[1] + 1

\* Mutant of RebasedWithdrawal: the adjusted amount is kept as the base
RebasedWithdrawal_Nominal(adjusted_withdrawal, cum) == adjusted_withdrawal

\* adjusted_withdrawal / self._cumulative_inflation
RebasedWithdrawal(adjusted_withdrawal, cum) == MulDiv(adjusted_withdrawal, BPS, cum)

GuytonKlinger_calculate_withdrawal(self, state, p) ==
    LET base0 == IF self._base_withdrawal = None
                 THEN MulDiv(p.init_balance, self.initial_rate, BPS)
                 ELSE self._base_withdrawal[1]
        self1 == [self EXCEPT !._base_withdrawal = Some(base0)]
    IN  IF state = None
        THEN Return(self1, base0)
        ELSE
        LET st == state[1]
            cum == IF ConsecutiveYear(self, st)
                   THEN MulDiv(self._cumulative_inflation, BPS + st.inflation, BPS)
                   ELSE self._cumulative_inflation
            self2 == [self1 EXCEPT !._cumulative_inflation = cum,
                                   !._last_year = Some(st.year)]
            inflation_adjusted_withdrawal == MulDiv(base0, cum, BPS)
            current_balance == st.balance
            \* current_rate = inflation_adjusted_withdrawal / current_balance, against
            \* a guardrail g: compared after multiplying both sides by current_balance
            rate_above(g) == inflation_adjusted_withdrawal * BPS > g * current_balance
            rate_below(g) == inflation_adjusted_withdrawal * BPS < g * current_balance
            cut == MulDiv(inflation_adjusted_withdrawal, BPS - self.cut_pct, BPS)
            raised == MulDiv(inflation_adjusted_withdrawal, BPS + self.raise_pct, BPS)
        IN  IF current_balance <= 0
            THEN Return(self2, 0)
            ELSE IF rate_above(self.upper_guardrail)
            THEN IF current_balance <= MulDiv(p.init_balance, 12000, BPS)
                 THEN IF cum = 0
                      THEN Raise(self2, "ZeroDivisionError")
                      ELSE Return([self2 EXCEPT !._base_withdrawal =
                                                    Some(RebasedWithdrawal(cut, cum))], cut)
                 ELSE Return(self2, inflation_adjusted_withdrawal)
            ELSE IF rate_below(self.lower_guardrail)
            THEN IF current_balance >= MulDiv(p.init_balance, 8000, BPS)
                 THEN IF cum = 0
                      THEN Raise(self2, "ZeroDivisionError")
                      ELSE Return([self2 EXCEPT !._base_withdrawal =
                                                    Some(RebasedWithdrawal(raised, cum))], raised)
                 ELSE Return(self2, inflation_adjusted_withdrawal)
            ELSE Return(self2, inflation_adjusted_withdrawal)

VPW_calculate_withdrawal(self, state, p) ==
    LET age == IF state = None THEN 65 ELSE state[1].age
        bal == IF state = None THEN p.init_balance ELSE state[1].balance
        equity_key == _get_equity_allocation_key(self, p.equity_pct)
    IN  IF equity_key.raised # ""
        THEN equity_key
        ELSE LET withdrawal_pct == _get_withdrawal_percentage(self, age, equity_key.ret)
             IN  IF withdrawal_pct.raised # ""
                 THEN withdrawal_pct
                 ELSE Return(self, MulDiv(bal, withdrawal_pct.ret, BPS))

FixedWithdrawal_calculate_withdrawal(self, state, p) ==
    Return(self, self.withdrawal_amount)

\* Dynamic dispatch on the class of the policy object
calculate_withdrawal(self, state, p) ==
    CASE self.kind = "DummyStrategy" -> Dummy_calculate_withdrawal(self, state, p)
      [] self.kind = "FourPercentRule" -> FourPercent_calculate_withdrawal(self, state, p)
      [] self.kind = "ConstantPercentageStrategy" ->
            ConstantPercentage_calculate_withdrawal(self, state, p)
      [] self.kind = "EndowmentStrategy" -> Endowment_calculate_withdrawal(self, state, p)
      [] self.kind = "GuytonKlingerStrategy" ->
            GuytonKlinger_calculate_withdrawal(self, state, p)
      [] self.kind = "VariablePercentageWithdrawal" ->
            VPW_calculate_withdrawal(self, state, p)
      [] self.kind = "FixedWithdrawalStrategy" ->
            FixedWithdrawal_calculate_withdrawal(self, state, p)

----------------------------------------------------------------------------
(* Bounds and input domains *)

\* direct calls made to one policy object
MaxCalls == 2

\* direct calls made to one EndowmentStrategy object
MaxEndowmentCalls == 4

\* Candidate PortfolioParams; the constructor keeps those that validate
ParamsCandidates ==
    { PortfolioParams(b, e, f, 42) :
        b \in {0, 1000000}, e \in {6000, 12000}, f \in {0 - 1, 50} }

ValidParams == { p \in ParamsCandidates : PortfolioParams_valid(p) }

\* Candidate YearStates; the constructor keeps those that validate
StateCandidates ==
    { YearState(y, a, b, i, None) :
        y \in {2024, 2025}, a \in {0 - 1, 65, 100},
        b \in {0 - 1000, 0, 700000, 900000, 1000000, 1100000, 1300000},
        i \in {0 - 10000, 0, 300} }

ValidStates == { s \in StateCandidates : YearState_valid(s) }

EndowmentStates ==
    { YearState(2024, 65, b, 0, None) : b \in {900000, 1000000, 1100000, 1300000} }

\* The built-in policies as their constructors' defaults make them
BuiltinPolicies ==
    { DummyStrategy, FourPercentRule, ConstantPercentageStrategy(500),
      EndowmentStrategy(7000, 3000, 3), GuytonKlingerStrategy(500, 2000, 1000, 1000),
      VariablePercentageWithdrawal }

BuiltinKinds == { s.kind : s \in BuiltinPolicies }

----------------------------------------------------------------------------
(* Idle values of the parts a specification does not use *)

PolicyIdle ==
    /\ lastcall = None
    /\ call_log = <<>>

EngineIdle ==
    /\ tax_engine = "none"
    /\ mode = ""
    /\ pc = "idle"
    /\ returns = <<>>
    /\ path_idx = 0
    /\ year_idx = 0
    /\ balance = 0
    /\ path_results = <<>>
    /\ results = <<>>
    /\ balances = <<>>
    /\ trace = <<>>

MarketIdle ==
    /\ np_random = 0
    /\ sims = <<>>

----------------------------------------------------------------------------
(* Direct calls of calculate_withdrawal on one policy object *)

\* One call policy.calculate_withdrawal(state, params) with state drawn from S
PolicyCall(S, max) ==
    /\ Len(call_log) < max
    /\ \E state \in {None} \cup {Some(s) : s \in S} :
          LET r == calculate_withdrawal(strategy, state, params)
          IN  /\ strategy' = r.self
              /\ lastcall' = Some([state |-> state, ret |-> r.ret, raised |-> r.raised])
              /\ call_log' = Append(call_log,
                                    IF state = None THEN None ELSE Some(state[1].balance))
    /\ UNCHANGED <<params>>
    /\ UNCHANGED engineVars
    /\ UNCHANGED marketVars

CallAny == PolicyCall(ValidStates, MaxCalls)

CallEndowment == PolicyCall(EndowmentStates, MaxEndowmentCalls)

InitPolicy ==
    /\ params \in ValidParams
    /\ strategy \in BuiltinPolicies
    /\ PolicyIdle
    /\ EngineIdle
    /\ MarketIdle

NextPolicy == CallAny

SpecPolicy == InitPolicy /\ [][NextPolicy]_vars

InitEndowment ==
    /\ params \in ValidParams
    /\ strategy \in { EndowmentStrategy(7000, 3000, 3), EndowmentStrategy(5000, 5000, 2),
                      EndowmentStrategy(0, 10000, 1) }
    /\ PolicyIdle
    /\ EngineIdle
    /\ MarketIdle

NextEndowment == CallEndowment

SpecEndowment == InitEndowment /\ [][NextEndowment]_vars

----------------------------------------------------------------------------
(* Claims about direct policy calls *)

Called == lastcall # None

\* C5: every call with validated params and an absent or validated state
\* returns a value >= 0, whatever calls came before
C5_WithdrawalNonNegative ==
    (Called /\ lastcall[1].raised = "") => lastcall[1].ret >= 0

\* C6: no call with validated params and an absent or validated state raises,
\* whatever calls came before
C6_NeverRaises ==
    Called => lastcall[1].raised = ""

\* C9: a call whose state has a zero or negative balance returns 0 and does not raise
C9_NonPositiveBalanceReturnsZero ==
    (Called /\ lastcall[1].state # None /\ lastcall[1].state[1].balance <= 0)
        => (lastcall[1].raised = "" /\ lastcall[1].ret = 0)

\* The balances the calls since the last absent-state call were made with,
\* the absent-state call counting as a call with init_balance
RECURSIVE SinceReset(_)
SinceReset(log) ==
    IF log = <<>> THEN <<>>
    ELSE LET last == log[Len(log)]
             front == SubSeq(log, 1, Len(log) - 1)
         IN  IF last = None THEN <<params.init_balance>>
             ELSE SinceReset(front) \o <<last[1]>>

LastN(s, n) == SubSeq(s, Len(s) - n + 1, Len(s))

\* C10: EndowmentStrategy returns alpha * c + beta * mean(H), H being the balances of
\* the most recent min(k, window) calls, and keeps exactly H as its history
C10_EndowmentFormula ==
    (Called /\ strategy.kind = "EndowmentStrategy") =>
        LET seen == SinceReset(call_log)
            H == LastN(seen, Min(Len(seen), strategy.window))
            c == seen[Len(seen)]
        IN  /\ lastcall[1].raised = ""
            /\ strategy.portfolio_history = H
            /\ Len(strategy.portfolio_history) <= strategy.window
            /\ lastcall[1].ret = MulDiv(c, strategy.alpha, BPS)
                                   + MulDiv(SumSeq(H) \div Len(H), strategy.beta, BPS)
            /\ (lastcall[1].state = None =>
                   (c = params.init_balance /\ H = <<params.init_balance>>))

\* C10 witness: alpha 0.7, beta 0.3, window 3, balances 1,000,000; 1,100,000; 900,000
\* gave 930,000 on the third call and the fourth call evicted the first balance
C10_Witness ==
    /\ strategy.kind = "EndowmentStrategy"
    /\ strategy.alpha = 7000 /\ strategy.window = 3
    /\ call_log = <<Some(1000000), Some(1100000), Some(900000), Some(1300000)>>
    /\ strategy.portfolio_history = <<1100000, 900000, 1300000>>
    /\ MulDiv(900000, 7000, BPS) + MulDiv(1000000, 3000, BPS) = 930000

\* C19: FourPercentRule returns 4% of init_balance for an absent state and 4% of
\* init_balance times (1 + inflation) for a present one, whatever the balance,
\* year and age of the state and whatever calls came before
C19_FourPercentFormula ==
    (Called /\ strategy.kind = "FourPercentRule") =>
        LET state == lastcall[1].state
            base == (4 * params.init_balance) \div 100
        IN  /\ lastcall[1].raised = ""
            /\ state = None => lastcall[1].ret = base
            /\ state # None =>
                  /\ lastcall[1].ret = MulDiv(base, BPS + state[1].inflation, BPS)
                  /\ (params.init_balance = 1000000 /\ state[1].inflation = 300)
                         => lastcall[1].ret = 41200
                  /\ \A other \in ValidStates :
                        other.inflation = state[1].inflation =>
                            calculate_withdrawal(strategy, Some(other), params).ret
                                = lastcall[1].ret

\* C19 witness: after a first call with another balance, a call with inflation
\* 3% and balance 700,000 on init_balance 1,000,000 returned 41,200
C19_Witness ==
    /\ Called
    /\ strategy.kind = "FourPercentRule"
    /\ params.init_balance = 1000000
    /\ Len(call_log) = 2
    /\ call_log[1] = Some(1300000)
    /\ lastcall[1].state # None
    /\ lastcall[1].state[1].balance = 700000
    /\ lastcall[1].state[1].inflation = 300
    /\ lastcall[1].ret = 41200

----------------------------------------------------------------------------
(* Direct calls on VariablePercentageWithdrawal objects built from custom tables *)

\* direct calls made to one VariablePercentageWithdrawal object
MaxVPWCalls == 2

\* The custom table of tests/strategies/test_vpw.py with int keys only:
\* allocations 60 and 80, ages 65 and 70, rates 3.0/4.0 and 2.5/3.5 percent
IntKeyTable ==
    << [k |-> 60, v |-> << [k |-> 65, v |-> 300], [k |-> 70, v |-> 400] >>],
       [k |-> 80, v |-> << [k |-> 65, v |-> 250], [k |-> 70, v |-> 350] >>] >>

\* IntKeyTable with the allocation keys in A and the age keys in G written as strings
KeyedTable(A, G) ==
    [i \in 1..Len(IntKeyTable) |->
        [k |-> IF IntKeyTable[i].k \in A THEN StrKey(IntKeyTable[i].k)
               ELSE IntKeyTable[i].k,
         v |-> [j \in 1..Len(IntKeyTable[i].v) |->
                  [k |-> IF IntKeyTable[i].v[j].k \in G
                         THEN StrKey(IntKeyTable[i].v[j].k)
                         ELSE IntKeyTable[i].v[j].k,
                   v |-> IntKeyTable[i].v[j].v]]]]

\* int keys, string keys, and both mixed, at either level
CustomTables == { KeyedTable(A, G) : A \in {{}, {80}, {60, 80}}, G \in {{}, {70}, {65, 70}} }

\* How a table reaches the constructor: through a YAML file or as custom_table
Routes == {"path", "custom_table"}

Build(route, table) ==
    IF route = "path"
    THEN VariablePercentageWithdrawal_init(Some(table), None)
    ELSE VariablePercentageWithdrawal_init(None, Some(table))

VPWPolicies ==
    { Build(route, table) : route \in Routes, table \in CustomTables \cup {<<>>} }
        \cup { VariablePercentageWithdrawal_init(None, None) }

\* equity_pct from 0 to 1, on and between the allocation keys and their midpoints
VPWParams ==
    { PortfolioParams(1000000, e, 50, 42) :
        e \in {0, 3000, 3050, 5000, 5500, 6000, 7000, 8000, 10000} }

\* ages below, on, between and above the ages of the custom table
VPWStates == { YearState(2024, a, 1000000, 300, None) : a \in {60, 65, 67, 70, 75} }

CallVPW == PolicyCall(VPWStates, MaxVPWCalls)

InitVPW ==
    /\ params \in VPWParams
    /\ strategy \in VPWPolicies
    /\ PolicyIdle
    /\ EngineIdle
    /\ MarketIdle

NextVPW == CallVPW

SpecVPW == InitVPW /\ [][NextVPW]_vars

----------------------------------------------------------------------------
(* Claims about VariablePercentageWithdrawal *)

\* C11: with an empty table set every call, with a present or an absent state,
\* raises ValueError; no value (no fallback percentage) is returned
C11_EmptyTableRaisesValueError ==
    (Called /\ strategy.kind = "VariablePercentageWithdrawal"
            /\ strategy.vpw_tables = <<>>)
        => lastcall[1].raised = "ValueError"

\* C11 witness: an object with an empty table set was called with an absent
\* state and then with a present state, and the second call raised ValueError
C11_Witness ==
    /\ strategy.vpw_tables = <<>>
    /\ Len(call_log) = 2
    /\ call_log[1] = None
    /\ lastcall[1].state # None
    /\ lastcall[1].raised = "ValueError"

\* The table with every key of both levels replaced by the int it spells
IntKeyed(table) ==
    [i \in 1..Len(table) |->
        [k |-> int(table[i].k),
         v |-> [j \in 1..Len(table[i].v) |->
                  [k |-> int(table[i].v[j].k), v |-> table[i].v[j].v]]]]

\* C14: an object built from a table with string keys, through a YAML path or
\* as custom_table, answers every call as the object built from the same table
\* with int keys does
C14_StringKeysSameWithdrawal ==
    Called =>
        \A route \in Routes, table \in CustomTables :
            strategy = Build(route, table) =>
                LET same == calculate_withdrawal(Build("custom_table", IntKeyed(table)),
                                                 lastcall[1].state, params)
                IN  /\ lastcall[1].raised = same.raised
                    /\ lastcall[1].ret = same.ret

\* The allocation key closest to equity_pct * 100, the lower one of two equally
\* close keys; equity_pct is in basis points, so a key k stands at 100 * k
NearestKey(keys, equity_pct) ==
    CHOOSE k \in keys :
        \A other \in keys :
            \/ Abs(100 * k - equity_pct) < Abs(100 * other - equity_pct)
            \/ (Abs(100 * k - equity_pct) = Abs(100 * other - equity_pct) /\ k <= other)

\* C15: with the built-in tables the withdrawal is the one of the table whose
\* allocation key is closest to equity_pct * 100
C15_ClosestAllocationTable ==
    (Called /\ strategy.vpw_tables = DEFAULT_VPW_TABLES) =>
        LET key == NearestKey(SeqToSet(DictKeys(DEFAULT_VPW_TABLES)), params.equity_pct)
            age == IF lastcall[1].state = None THEN 65 ELSE lastcall[1].state[1].age
            bal == IF lastcall[1].state = None THEN params.init_balance
                   ELSE lastcall[1].state[1].balance
            pct == _get_withdrawal_percentage(strategy, age, key)
        IN  /\ lastcall[1].raised = ""
            /\ lastcall[1].ret = MulDiv(bal, pct.ret, BPS)

----------------------------------------------------------------------------
(* Constructor calls of the policies with parameters of any value *)

\* Fractions handed to the constructors: NaN, below 0, 0, inside, 1, above 1
EndowmentFractions == {NaN, 0 - 1, 0, 3000, 7000, BPS, BPS + 1}

GuytonKlingerFractions == {NaN, 0, 500, BPS}

Windows == {0, 1, 3}

\* The harness keeps the object of the last constructor call, or none if the call
\* raised, and the class, the arguments and the outcome of the call
ConstructPolicy(cls, args, r) ==
    /\ strategy' = r.self
    /\ lastcall' = Some([state |-> None, ret |-> 0, raised |-> r.raised,
                         cls |-> cls, args |-> args])
    /\ UNCHANGED <<params, call_log>>
    /\ UNCHANGED engineVars
    /\ UNCHANGED marketVars

ConstructConstantPercentage ==
    \E percentage \in EndowmentFractions :
        ConstructPolicy("ConstantPercentageStrategy", <<percentage>>,
                        ConstantPercentageStrategy_init(percentage))

ConstructEndowment ==
    \E alpha \in EndowmentFractions, beta \in EndowmentFractions, window \in Windows :
        ConstructPolicy("EndowmentStrategy", <<alpha, beta, window>>,
                        EndowmentStrategy_init(alpha, beta, window))

ConstructGuytonKlinger ==
    \E initial_rate \in GuytonKlingerFractions, guard_pct \in GuytonKlingerFractions,
       raise_pct \in GuytonKlingerFractions, cut_pct \in GuytonKlingerFractions :
        ConstructPolicy("GuytonKlingerStrategy",
                        <<initial_rate, guard_pct, raise_pct, cut_pct>>,
                        GuytonKlingerStrategy_init(initial_rate, guard_pct, raise_pct,
                                                   cut_pct))

InitConstruct ==
    /\ params = PortfolioParams(1000000, 6000, 50, 42)
    /\ strategy = BlankStrategy
    /\ PolicyIdle
    /\ EngineIdle
    /\ MarketIdle

NextConstruct == ConstructConstantPercentage \/ ConstructEndowment \/ ConstructGuytonKlinger

SpecConstruct == InitConstruct /\ [][NextConstruct]_vars

\* x in [0, 1] and x in (0, 1), x in basis points
Closed01(x) == x # NaN /\ 0 <= x /\ x <= BPS

Open01(x) == x # NaN /\ 0 < x /\ x < BPS

\* The constraints of the three constructors on their arguments
ValidArguments(cls, args) ==
    CASE cls = "ConstantPercentageStrategy" -> Closed01(args[1])
      [] cls = "EndowmentStrategy" ->
            /\ Closed01(args[1]) /\ Closed01(args[2])
            /\ args[1] + args[2] = BPS
            /\ args[3] >= 1
      [] cls = "GuytonKlingerStrategy" -> \A i \in 1..4 : Open01(args[i])

\* C13: a constructor call with invalid parameters raises ValueError and leaves no
\* object; every policy object that exists satisfies the constraints
C13_InvalidParametersRejected ==
    /\ Called =>
          (~ValidArguments(lastcall[1].cls, lastcall[1].args)
              => (lastcall[1].raised = "ValueError" /\ strategy = BlankStrategy))
    /\ strategy.kind = "ConstantPercentageStrategy" => Closed01(strategy.percentage)
    /\ strategy.kind = "EndowmentStrategy" =>
          /\ Closed01(strategy.alpha) /\ Closed01(strategy.beta)
          /\ strategy.alpha + strategy.beta = BPS
          /\ strategy.window >= 1
    /\ strategy.kind = "GuytonKlingerStrategy" =>
          /\ Open01(strategy.initial_rate) /\ Open01(strategy.guard_pct)
          /\ Open01(strategy.raise_pct) /\ Open01(strategy.cut_pct)

----------------------------------------------------------------------------
(* core/ledger.py *)

\* paths and years of one engine run
MaxPaths == 2

MaxYears == 2

\* Market returns in basis points: -150%, -50%, 0%, +5%
ReturnValues == {0 - 15000, 0 - 5000, 0, 500}

\* The returns matrices handed to the engine: one return in every cell (the
\* fixed-return simulator of tests/core/test_ledger.py), but for at most one cell
Matrices(n_paths, n_years) ==
    { [i \in 1..n_paths |-> [j \in 1..n_years |->
          IF i = ci /\ j = cj THEN r2 ELSE r]] :
      r \in ReturnValues, r2 \in ReturnValues, ci \in 1..n_paths, cj \in 1..n_years }

\* The tax functions handed to the engine: none configured, the 20% of the
\* withdrawal of tests/core/test_ledger.py, and a lump sum above any balance
TaxEngines == {"none", "simple_tax", "lump_tax"}

TaxEngine(name, withdrawal_amount, bal) ==
    CASE name = "none" -> 0
      [] name = "simple_tax" -> MulDiv(withdrawal_amount, 2000, BPS)
      [] name = "lump_tax" -> 1500000

\* fees of 0, of 50 basis points, and of 200% (fees_bps has no upper limit)
EngineParams == { PortfolioParams(1000000, 6000, f, 42) : f \in {0, 50, 20000} }

EnginePolicies ==
    BuiltinPolicies \cup { FixedWithdrawalStrategy(40000), FixedWithdrawalStrategy(2000000) }

starting_age == 65

starting_year == 2024

\* Mutant: fees_bps divided by 1000 instead of 10000
RunYearBalance_FeePerMille(call, state, p, tax, bal0, y, market_return) ==
    LET current_year == starting_year + y
        current_age == starting_age + y
        fee_factor == BPS - 10 * p.fees_bps
        withdrawal == call.ret
        bal1 == bal0 - withdrawal
        taxed == withdrawal > 0
        tax_owed == IF taxed THEN TaxEngine(tax, withdrawal, bal1) ELSE 0
        bal2 == bal1 - tax_owed
        bal3 == Max(0, MulDiv(MulDiv(bal2, fee_factor, BPS), BPS + market_return, BPS))
    IN  [self |-> call.self, raised |-> call.raised, state |-> state,
         withdrawal |-> withdrawal, taxed |-> taxed, tax_arg |-> bal1,
         tax_owed |-> tax_owed, balance |-> bal3,
         year_state |-> YearState(current_year, current_age, bal3, 0, Some(withdrawal))]

\* Mutant: the floor at 0 applied before the fees and the return
RunYearBalance_FloorFirst(call, state, p, tax, bal0, y, market_return) ==
    LET current_year == starting_year + y
        current_age == starting_age + y
        fee_factor == BPS - p.fees_bps
        withdrawal == call.ret
        bal1 == bal0 - withdrawal
        taxed == withdrawal > 0
        tax_owed == IF taxed THEN TaxEngine(tax, withdrawal, bal1) ELSE 0
        bal2 == bal1 - tax_owed
        bal3 == MulDiv(MulDiv(Max(0, bal2), fee_factor, BPS), BPS + market_return, BPS)
    IN  [self |-> call.self, raised |-> call.raised, state |-> state,
         withdrawal |-> withdrawal, taxed |-> taxed, tax_arg |-> bal1,
         tax_owed |-> tax_owed, balance |-> bal3,
         year_state |-> YearState(current_year, current_age, bal3, 0, Some(withdrawal))]

\* Mutant: the recorded withdrawal capped at the balance the year started from
RunYearBalance_Capped(call, state, p, tax, bal0, y, market_return) ==
    LET current_year == starting_year + y
        current_age == starting_age + y
        fee_factor == BPS - p.fees_bps
        withdrawal == call.ret
        bal1 == bal0 - withdrawal
        taxed == withdrawal > 0
        tax_owed == IF taxed THEN TaxEngine(tax, withdrawal, bal1) ELSE 0
        bal2 == bal1 - tax_owed
        bal3 == Max(0, MulDiv(MulDiv(bal2, fee_factor, BPS), BPS + market_return, BPS))
    IN  [self |-> call.self, raised |-> call.raised, state |-> state,
         withdrawal |-> withdrawal, taxed |-> taxed, tax_arg |-> bal1,
         tax_owed |-> tax_owed, balance |-> bal3,
         year_state |-> YearState(current_year, current_age, bal3, 0, Some(Min(withdrawal, bal0)))]

\* The body of the year loop of CashFlowLedger.run after the policy call `call`
\* made with `state`: withdrawal, tax, fees and return, floor at 0, YearState
RunYearBalance(call, state, p, tax, bal0, y, market_return) ==
    LET current_year == starting_year + y
        current_age == starting_age + y
        fee_factor == BPS - p.fees_bps
        withdrawal == call.ret
        bal1 == bal0 - withdrawal
        taxed == withdrawal > 0
        tax_owed == IF taxed THEN TaxEngine(tax, withdrawal, bal1) ELSE 0
        bal2 == bal1 - tax_owed
        bal3 == Max(0, MulDiv(MulDiv(bal2, fee_factor, BPS), BPS + market_return, BPS))
    IN  [self |-> call.self, raised |-> call.raised, state |-> state,
         withdrawal |-> withdrawal, taxed |-> taxed, tax_arg |-> bal1,
         tax_owed |-> tax_owed, balance |-> bal3,
         year_state |-> YearState(current_year, current_age, bal3, 0, Some(withdrawal))]

\* Mutant: the policy handed the YearState of the year whatever it carries
RunYear_FullState(self, p, tax, bal0, y, market_return) ==
    LET state == Some(YearState(starting_year + y, starting_age + y, bal0, 0, None))
    IN  RunYearBalance(calculate_withdrawal(self, state, p), state, p, tax, bal0, y,
                       market_return)

\* One pass through the body of the year loop of CashFlowLedger.run, from
\* the balance bal0 at its start: the policy is handed a YearState only when it
\* carries _needs_full_state, and no state otherwise
RunYear(self, p, tax, bal0, y, market_return) ==
    LET state == IF self._needs_full_state
                 THEN Some(YearState(starting_year + y, starting_age + y, bal0, 0, None))
                 ELSE None
    IN  RunYearBalance(calculate_withdrawal(self, state, p), state, p, tax, bal0, y,
                       market_return)

\* Mutant: the balance recorded without the floor at 0
VectorizedYearBalance_NoFloor(call, state, p, tax, bal0, y, market_return) ==
    LET current_year == starting_year + y
        current_age == starting_age + y
        fee_factor == BPS - p.fees_bps
        withdrawal == call.ret
        bal1 == bal0 - withdrawal
        taxed == withdrawal > 0
        tax_owed == IF taxed THEN TaxEngine(tax, withdrawal, bal1) ELSE 0
        bal2 == bal1 - tax_owed
        bal3 == MulDiv(MulDiv(bal2, fee_factor, BPS), BPS + market_return, BPS)
    IN  [self |-> call.self, raised |-> call.raised, state |-> state,
         withdrawal |-> withdrawal, taxed |-> taxed, tax_arg |-> bal1,
         tax_owed |-> tax_owed, balance |-> bal3,
         year_state |-> YearState(current_year, current_age, bal3, 0, Some(withdrawal))]

\* Mutant: the tax function called in a year without a withdrawal as well
VectorizedYearBalance_TaxAlways(call, state, p, tax, bal0, y, market_return) ==
    LET current_year == starting_year + y
        current_age == starting_age + y
        fee_factor == BPS - p.fees_bps
        withdrawal == call.ret
        bal1 == bal0 - withdrawal
        taxed == withdrawal >= 0
        tax_owed == IF taxed THEN TaxEngine(tax, withdrawal, bal1) ELSE 0
        bal2 == bal1 - tax_owed
        bal3 == MulDiv(MulDiv(bal2, fee_factor, BPS), BPS + market_return, BPS)
        bal4 == Max(0, bal3)
    IN  [self |-> call.self, raised |-> call.raised, state |-> state,
         withdrawal |-> withdrawal, taxed |-> taxed, tax_arg |-> bal1,
         tax_owed |-> tax_owed, balance |-> bal4,
         year_state |-> YearState(current_year, current_age, bal4, 0, Some(withdrawal))]

\* The body of the year loop of run_simulation_vectorized after the policy call
VectorizedYearBalance(call, state, p, tax, bal0, y, market_return) ==
    LET current_year == starting_year + y
        current_age == starting_age + y
        fee_factor == BPS - p.fees_bps
        withdrawal == call.ret
        bal1 == bal0 - withdrawal
        taxed == withdrawal > 0
        tax_owed == IF taxed THEN TaxEngine(tax, withdrawal, bal1) ELSE 0
        bal2 == bal1 - tax_owed
        bal3 == MulDiv(MulDiv(bal2, fee_factor, BPS), BPS + market_return, BPS)
        bal4 == Max(0, bal3)
    IN  [self |-> call.self, raised |-> call.raised, state |-> state,
         withdrawal |-> withdrawal, taxed |-> taxed, tax_arg |-> bal1,
         tax_owed |-> tax_owed, balance |-> bal4,
         year_state |-> YearState(current_year, current_age, bal4, 0, Some(withdrawal))]

\* One pass through the body of the year loop of run_simulation_vectorized: the
\* policy is always handed the YearState of the year
VectorizedYear(self, p, tax, bal0, y, market_return) ==
    LET state == Some(YearState(starting_year + y, starting_age + y, bal0, 0, None))
    IN  VectorizedYearBalance(calculate_withdrawal(self, state, p), state, p, tax, bal0,
                              y, market_return)

EngineYear(md, self, p, tax, bal0, y, market_return) ==
    IF md = "run"
    THEN RunYear(self, p, tax, bal0, y, market_return)
    ELSE VectorizedYear(self, p, tax, bal0, y, market_return)

\* What the harness records of one pass: the policy call, then the tax call if made
Events(pi, y, step) ==
    <<[op |-> "calculate_withdrawal", path |-> pi, year |-> y, state |-> step.state,
       a |-> 0, b |-> 0, ret |-> step.withdrawal]>>
    \o (IF step.taxed
        THEN <<[op |-> "tax", path |-> pi, year |-> y, state |-> None,
                a |-> step.withdrawal, b |-> step.tax_arg, ret |-> step.tax_owed]>>
        ELSE <<>>)

Zeros(n_paths, n_years) == [i \in 1..n_paths |-> [j \in 1..n_years |-> 0]]

\* Entry of the engine up to the loops: market_simulator.generate(paths, years),
\* here any matrix of the requested shape, and the pre-allocation of the output
Generate ==
    /\ pc = "start"
    /\ \E n_paths \in 1..MaxPaths, n_years \in 1..MaxYears :
          /\ returns' \in Matrices(n_paths, n_years)
          /\ balances' = IF mode = "vectorized" THEN Zeros(n_paths, n_years) ELSE <<>>
          /\ trace' = <<[op |-> "generate", path |-> 0, year |-> 0, state |-> None,
                         a |-> n_paths, b |-> n_years, ret |-> 0]>>
    /\ pc' = "loop"
    /\ path_idx' = 0
    /\ year_idx' = 0
    /\ balance' = params.init_balance
    /\ path_results' = <<>>
    /\ results' = <<>>
    /\ UNCHANGED <<tax_engine, mode>>
    /\ UNCHANGED policyVars
    /\ UNCHANGED marketVars

\* Mutant: one list of YearStates kept across the paths
RecordYear_OnePathList(step) ==
    LET n_paths == Len(returns)
        n_years == Len(returns[1])
        last_year == year_idx + 1 = n_years
        last_path == path_idx + 1 = n_paths
    IN  IF step.raised # ""
        THEN /\ pc' = "raised"
             /\ strategy' = step.self
             /\ UNCHANGED <<path_idx, year_idx, balance, path_results, results,
                            balances, trace>>
        ELSE /\ strategy' = step.self
             /\ balance' = step.balance
             /\ trace' = trace \o Events(path_idx, year_idx, step)
             /\ IF mode = "run"
                THEN /\ path_results' = Append(path_results, step.year_state)
                     /\ results' = IF last_year
                                   THEN Append(results,
                                               Append(path_results, step.year_state))
                                   ELSE results
                     /\ UNCHANGED balances
                ELSE /\ balances' = [balances EXCEPT
                                        ![path_idx + 1][year_idx + 1] = step.balance]
                     /\ UNCHANGED <<path_results, results>>
             /\ year_idx' = IF last_year THEN 0 ELSE year_idx + 1
             /\ path_idx' = IF last_year THEN path_idx + 1 ELSE path_idx
             /\ pc' = IF last_year /\ last_path THEN "done" ELSE "loop"

\* Mutant: the loop over the paths inside the loop over the years
RecordYear_YearMajor(step) ==
    LET n_paths == Len(returns)
        n_years == Len(returns[1])
        last_year == year_idx + 1 = n_years
        last_path == path_idx + 1 = n_paths
    IN  IF step.raised # ""
        THEN /\ pc' = "raised"
             /\ strategy' = step.self
             /\ UNCHANGED <<path_idx, year_idx, balance, path_results, results,
                            balances, trace>>
        ELSE /\ strategy' = step.self
             /\ balance' = step.balance
             /\ trace' = trace \o Events(path_idx, year_idx, step)
             /\ IF mode = "run"
                THEN /\ path_results' = IF last_year THEN <<>>
                                        ELSE Append(path_results, step.year_state)
                     /\ results' = IF last_year
                                   THEN Append(results,
                                               Append(path_results, step.year_state))
                                   ELSE results
                     /\ UNCHANGED balances
                ELSE /\ balances' = [balances EXCEPT
                                        ![path_idx + 1][year_idx + 1] = step.balance]
                     /\ UNCHANGED <<path_results, results>>
             /\ path_idx' = IF last_path THEN 0 ELSE path_idx + 1
             /\ year_idx' = IF last_path THEN year_idx + 1 ELSE year_idx
             /\ pc' = IF last_year /\ last_path THEN "done" ELSE "loop"

\* The bookkeeping of one completed pass `step`: the record of the year, the loop
\* counters, and the end of the path and of the run
RecordYear(step) ==
    LET n_paths == Len(returns)
        n_years == Len(returns[1])
        last_year == year_idx + 1 = n_years
        last_path == path_idx + 1 = n_paths
    IN  IF step.raised # ""
        THEN /\ pc' = "raised"
             /\ strategy' = step.self
             /\ UNCHANGED <<path_idx, year_idx, balance, path_results, results,
                            balances, trace>>
        ELSE /\ strategy' = step.self
             /\ balance' = step.balance
             /\ trace' = trace \o Events(path_idx, year_idx, step)
             /\ IF mode = "run"
                THEN /\ path_results' = IF last_year THEN <<>>
                                        ELSE Append(path_results, step.year_state)
                     /\ results' = IF last_year
                                   THEN Append(results,
                                               Append(path_results, step.year_state))
                                   ELSE results
                     /\ UNCHANGED balances
                ELSE /\ balances' = [balances EXCEPT
                                        ![path_idx + 1][year_idx + 1] = step.balance]
                     /\ UNCHANGED <<path_results, results>>
             /\ year_idx' = IF last_year THEN 0 ELSE year_idx + 1
             /\ path_idx' = IF last_year THEN path_idx + 1 ELSE path_idx
             /\ pc' = IF last_year /\ last_path THEN "done" ELSE "loop"

\* One year of one path, in either engine; the last year of a path closes the
\* path and the last year of the last path ends the run
Year ==
    /\ pc = "loop"
    /\ RecordYear(EngineYear(mode, strategy, params, tax_engine,
                             IF year_idx = 0 THEN params.init_balance ELSE balance,
                             year_idx, returns[path_idx + 1][year_idx + 1]))
    /\ UNCHANGED <<tax_engine, mode, returns>>
    /\ UNCHANGED <<params, lastcall, call_log>>
    /\ UNCHANGED marketVars

InitEngine ==
    /\ params \in EngineParams
    /\ strategy \in EnginePolicies
    /\ PolicyIdle
    /\ tax_engine \in TaxEngines
    /\ mode \in {"run", "vectorized"}
    /\ pc = "start"
    /\ returns = <<>>
    /\ path_idx = 0
    /\ year_idx = 0
    /\ balance = 0
    /\ path_results = <<>>
    /\ results = <<>>
    /\ balances = <<>>
    /\ trace = <<>>
    /\ MarketIdle

NextEngine == Generate \/ Year

SpecEngine == InitEngine /\ [][NextEngine]_vars

----------------------------------------------------------------------------
(* Claims about the engine *)

\* The (path, year) cells, numbered from 0, whose year the engine has completed
Recorded ==
    IF pc \in {"loop", "done"}
    THEN { c \in (0..(Len(returns) - 1)) \X (0..(Len(returns[1]) - 1)) :
             c[1] < path_idx \/ (c[1] = path_idx /\ c[2] < year_idx) }
    ELSE {}

\* The balance the engine recorded for a completed cell
RecordedBalance(pi, y) ==
    IF mode = "run"
    THEN IF pi < Len(results)
         THEN results[pi + 1][y + 1].balance
         ELSE path_results[y + 1].balance
    ELSE balances[pi + 1][y + 1]

\* The value the policy returned for a completed cell
WithdrawalAt(pi, y) ==
    (CHOOSE i \in 1..Len(trace) :
        trace[i].op = "calculate_withdrawal" /\ trace[i].path = pi /\ trace[i].year = y)

\* C1: every balance either engine records, and its running balance, is >= 0
C1_BalanceNonNegative ==
    /\ pc \in {"loop", "done"} => balance >= 0
    /\ \A c \in Recorded : RecordedBalance(c[1], c[2]) >= 0

\* C1 witness: in each engine a year whose withdrawal exceeded the balance it
\* started from, and a year whose fee-and-return factor was negative, were recorded
C1_Witness ==
    /\ pc = "done"
    /\ \E c \in Recorded :
          /\ trace[WithdrawalAt(c[1], c[2])].ret > params.init_balance
          /\ c[2] = 0
          /\ RecordedBalance(c[1], c[2]) = 0
    /\ \E c \in Recorded :
          /\ returns[c[1] + 1][c[2] + 1] < 0 - BPS
          /\ RecordedBalance(c[1], c[2]) > 0

\* The year transition as the specification states it
YearEnd(b, w, t, fees_bps, r) ==
    Max(0, MulDiv(MulDiv(b - w - t, BPS - fees_bps, BPS), BPS + r, BPS))

\* C3: each recorded balance is max(0, (b - w - t) * (1 - fees_bps/10000) * (1 + r)),
\* b the previous year's recorded balance of the path or init_balance
C3_YearTransition ==
    \A c \in Recorded :
        LET pi == c[1]
            y == c[2]
            b == IF y = 0 THEN params.init_balance ELSE RecordedBalance(pi, y - 1)
            w == trace[WithdrawalAt(pi, y)].ret
            t == IF w > 0 THEN TaxEngine(tax_engine, w, b - w) ELSE 0
            r == returns[pi + 1][y + 1]
        IN  /\ RecordedBalance(pi, y) = YearEnd(b, w, t, params.fees_bps, r)
            /\ (b = 1000000 /\ w = 40000 /\ t = 0 /\ params.fees_bps = 50 /\ r = 500)
                   => RecordedBalance(pi, y) = 1002960

\* C3 witness: init_balance 1,000,000, 50 bps, r = 5%, w = 40,000 ended year 1
\* at 1,002,960, and a second year followed it
C3_Witness ==
    /\ pc = "done"
    /\ params.init_balance = 1000000 /\ params.fees_bps = 50 /\ tax_engine = "none"
    /\ <<0, 1>> \in Recorded
    /\ returns[1][1] = 500
    /\ trace[WithdrawalAt(0, 0)].ret = 40000
    /\ RecordedBalance(0, 0) = 1002960
    /\ RecordedBalance(0, 1) > 0

\* A policy object with the same constructor arguments, before any call
Fresh(self) ==
    [self EXCEPT !.portfolio_history = <<>>, !._base_withdrawal = None,
                 !._cumulative_inflation = BPS, !._last_year = None]

\* The balance matrix of a whole run of engine md on returns matrix R, from
\* cell number n (path-major), policy object self and running balance bal
RECURSIVE Simulate(_, _, _, _, _, _, _, _)
Simulate(md, self, p, tax, R, n, bal, out) ==
    LET n_years == Len(R[1])
        pi == n \div n_years
        y == n % n_years
    IN  IF n = Len(R) * n_years
        THEN out
        ELSE LET bal0 == IF y = 0 THEN p.init_balance ELSE bal
                 step == EngineYear(md, self, p, tax, bal0, y, R[pi + 1][y + 1])
             IN  IF step.raised # ""
                 THEN out
                 ELSE Simulate(md, step.self, p, tax, R, n + 1, step.balance,
                               [out EXCEPT ![pi + 1][y + 1] = step.balance])

BalancesOf(md, self, p, tax, R) ==
    Simulate(md, Fresh(self), p, tax, R, 0, p.init_balance, Zeros(Len(R), Len(R[1])))

RecordedMatrix ==
    [i \in 1..Len(returns) |-> [j \in 1..Len(returns[1]) |-> RecordedBalance(i - 1, j - 1)]]

OtherMode == IF mode = "run" THEN "vectorized" ELSE "run"

\* C2: for every built-in policy, the balances of a finished run equal, cell by cell,
\* those of the other engine on the same params, returns and tax function with a
\* fresh policy of the same configuration
C2_EnginesAgree ==
    (pc = "done" /\ strategy.kind \in BuiltinKinds) =>
        RecordedMatrix = BalancesOf(OtherMode, strategy, params, tax_engine, returns)

\* C4: the balances a finished run recorded for a path are those of every run
\* that differs only in the returns of other paths
C4_PathsIndependent ==
    pc = "done" =>
        \A i \in 1..Len(returns) :
            \A R2 \in Matrices(Len(returns), Len(returns[1])) :
                R2[i] = returns[i] =>
                    BalancesOf(mode, strategy, params, tax_engine, R2)[i]
                        = RecordedMatrix[i]

\* The calls of the tax function the engine made in a completed cell
TaxCalls(pi, y) ==
    { i \in 1..Len(trace) :
        trace[i].op = "tax" /\ trace[i].path = pi /\ trace[i].year = y }

\* C17: in a year whose withdrawal is > 0 the tax function is called exactly once,
\* with the withdrawal and the balance less the withdrawal; in a year whose
\* withdrawal is <= 0 it is not called; without a tax engine every tax is 0
C17_TaxCalledOncePerWithdrawal ==
    \A c \in Recorded :
        LET pi == c[1]
            y == c[2]
            b == IF y = 0 THEN params.init_balance ELSE RecordedBalance(pi, y - 1)
            w == trace[WithdrawalAt(pi, y)].ret
        IN  /\ w > 0 =>
                  /\ Cardinality(TaxCalls(pi, y)) = 1
                  /\ \A i \in TaxCalls(pi, y) : trace[i].a = w /\ trace[i].b = b - w
            /\ w <= 0 => TaxCalls(pi, y) = {}
            /\ tax_engine = "none" =>
                  /\ \A i \in TaxCalls(pi, y) : trace[i].ret = 0
                  /\ RecordedBalance(pi, y)
                        = YearEnd(b, w, 0, params.fees_bps, returns[pi + 1][y + 1])

\* C17 witness: under the 20% tax a path had a year with a withdrawal of 50,000,
\* taxed once on (50,000, 950,000), and then a year with no withdrawal and no tax call
C17_Witness ==
    /\ pc = "done"
    /\ tax_engine = "simple_tax"
    /\ <<0, 1>> \in Recorded
    /\ trace[WithdrawalAt(0, 0)].ret = 50000
    /\ \E i \in TaxCalls(0, 0) :
          trace[i].a = 50000 /\ trace[i].b = 950000 /\ trace[i].ret = 10000
    /\ trace[WithdrawalAt(0, 1)].ret = 0
    /\ TaxCalls(0, 1) = {}

\* C18: with DummyStrategy, no fees and a zero return in every cell, every recorded
\* balance is init_balance and every recorded withdrawal is 0
C18_DummyZeroReturnIdentity ==
    (/\ strategy.kind = "DummyStrategy"
     /\ params.fees_bps = 0
     /\ pc \in {"loop", "done"}
     /\ \A i \in 1..Len(returns) : \A j \in 1..Len(returns[i]) : returns[i][j] = 0)
    => \A c \in Recorded :
          /\ RecordedBalance(c[1], c[2]) = params.init_balance
          /\ trace[WithdrawalAt(c[1], c[2])].ret = 0
          /\ (mode = "run" /\ pc = "done")
                => results[c[1] + 1][c[2] + 1].withdrawal_nominal = Some(0)

\* C18 witness: a finished run of 2 paths and 2 years with DummyStrategy, no fees,
\* zero returns and a tax engine, whose last balance is init_balance
C18_Witness ==
    /\ pc = "done"
    /\ mode = "run"
    /\ strategy.kind = "DummyStrategy"
    /\ params.fees_bps = 0
    /\ tax_engine = "lump_tax"
    /\ returns = Zeros(2, 2)
    /\ results[2][2].balance = params.init_balance

\* C20: a finished run has one entry per requested path and in it one per requested
\* year, in order; entry [p][k] carries year 2024 + k, age 65 + k, inflation 0 and
\* the balance that ends year k of row p of the returns matrix
C20_OutputShapeAndOrder ==
    pc = "done" =>
        LET n_paths == trace[1].a
            n_years == trace[1].b
            prev(out, pi, k) == IF k = 1 THEN params.init_balance ELSE out[pi][k - 1]
            w(pi, k) == trace[WithdrawalAt(pi - 1, k - 1)].ret
            t(out, pi, k) ==
                IF w(pi, k) > 0
                THEN TaxEngine(tax_engine, w(pi, k), prev(out, pi, k) - w(pi, k))
                ELSE 0
            end(out, pi, k) ==
                YearEnd(prev(out, pi, k), w(pi, k), t(out, pi, k), params.fees_bps,
                        returns[pi][k])
            run_balances ==
                [pi \in 1..Len(results) |->
                    [k \in 1..Len(results[pi]) |-> results[pi][k].balance]]
        IN  IF mode = "run"
            THEN /\ Len(results) = n_paths
                 /\ \A pi \in 1..n_paths :
                       /\ Len(results[pi]) = n_years
                       /\ \A k \in 1..n_years :
                             /\ results[pi][k].year = 2024 + (k - 1)
                             /\ results[pi][k].age = 65 + (k - 1)
                             /\ results[pi][k].inflation = 0
                             /\ results[pi][k].balance = end(run_balances, pi, k)
            ELSE /\ Len(balances) = n_paths
                 /\ \A pi \in 1..n_paths :
                       /\ Len(balances[pi]) = n_years
                       /\ \A k \in 1..n_years :
                             balances[pi][k] = end(balances, pi, k)

\* C20 witness: a finished run of 2 paths and 2 years whose rows of returns differ
\* in year 2 only, and whose entries [1][2] and [2][2] differ accordingly
C20_Witness ==
    /\ pc = "done"
    /\ mode = "run"
    /\ Len(results) = 2 /\ Len(results[2]) = 2
    /\ returns[1][1] = returns[2][1]
    /\ returns[1][2] # returns[2][2]
    /\ results[1][1].balance = results[2][1].balance
    /\ results[1][2].balance # results[2][2].balance
    /\ results[2][2].year = 2025 /\ results[2][2].age = 66

----------------------------------------------------------------------------
(* core/market.py.  A generator is modelled by a 16-bit linear congruential  *)
(* stream: a draw advances the state and its value is a function of the new  *)
(* state, so the values drawn depend on the seed and on how many draws were  *)
(* made before.                                                              *)

\* generate calls made on one MarketSimulator
MaxGenerateCalls == 2

\* n_paths of one generate call
GenPaths == {1, 2}

\* n_years of one generate call: below one block, and one block plus a remainder
GenYears == {3, 7}

Seeds == {42, 43}

Modes == {"lognormal", "bootstrap"}

\* States the global legacy generator may be in when the program starts
GlobalStates == {0, 1}

Advance(s) == (s * 25173 + 13849) % 65536

\* Mutant: the simulator's stream started from the global generator, not from the seed
PCG64_FromGlobal(seed) == Advance(np_random)

\* np.random.PCG64(seed): the state a seed puts the stream in
PCG64(seed) == Advance(seed % 65536)

\* np.random.seed(x) on the global legacy generator
np_random_seed(x) == Advance((x + 7) % 65536)

\* The states the stream passes through in n draws
RECURSIVE Stream(_, _)
Stream(s, n) ==
    IF n = 0 THEN <<>>
    ELSE IF n = 1 THEN <<Advance(s)>>
    ELSE LET h == n \div 2
             left == Stream(s, h)
         IN  left \o Stream(left[h], n - h)

After(s, n) == IF n = 0 THEN s ELSE Stream(s, n)[n]

\* A standard normal draw, in whole standard deviations -2..2
Normal(s) == ((s \div 256) % 5) - 2

\* rng.standard_normal((rows, cols)): one batch, row-major
standard_normal(rng, rows, cols) ==
    LET st == Stream(rng, rows * cols)
    IN  [rng |-> After(rng, rows * cols),
         ret |-> [i \in 1..rows |-> [j \in 1..cols |-> Normal(st[(i - 1) * cols + j])]]]

\* rng.integers(0, high, size=(rows, cols)): one batch, row-major, values 0..high-1
integers(rng, high, rows, cols) ==
    LET st == Stream(rng, rows * cols)
    IN  [rng |-> After(rng, rows * cols),
         ret |-> [i \in 1..rows |-> [j \in 1..cols |->
                     (st[(i - 1) * cols + j] \div 16) % high]]]

\* Mutant: the historical pool drawn without reseeding the global generator
_load_historical_data_NoSeed(g) ==
    LET years == 100
        st == Stream(g, years)
    IN  [np_random |-> After(g, years),
         ret |-> [i \in 1..years |-> 700 + 1800 * Normal(st[i])]]

\* _load_historical_data: reseeds the global generator with 12345 and draws
\* 100 years of normal(0.07, 0.18) returns from it
_load_historical_data(g) ==
    LET years == 100
        g0 == np_random_seed(12345)
        st == Stream(g0, years)
    IN  [np_random |-> After(g0, years),
         ret |-> [i \in 1..years |-> 700 + 1800 * Normal(st[i])]]

\* Mutant: only the windows that do not overlap
_prepare_bootstrap_data_Disjoint(hist) ==
    [i \in 1..(Len(hist) \div 5) |-> SubSeq(hist, 5 * (i - 1) + 1, 5 * i)]

\* _prepare_bootstrap_data: every window of 5 consecutive years
_prepare_bootstrap_data(hist) ==
    LET n_years == Len(hist)
        n_blocks == n_years - 4
    IN  [i \in 1..n_blocks |-> SubSeq(hist, i, i + 4)]

\* MarketSimulator(params, mode) with params.seed = seed, the global generator in state g
MarketSimulator(seed, md, g) ==
    LET rng == PCG64(seed)
        hist == _load_historical_data(g)
    IN  IF md = "bootstrap"
        THEN [np_random |-> hist.np_random,
              self |-> [seed |-> seed, mode |-> md, rng |-> rng,
                        _historical_returns |-> hist.ret,
                        _block_returns |-> _prepare_bootstrap_data(hist.ret),
                        log |-> <<>>]]
        ELSE [np_random |-> g,
              self |-> [seed |-> seed, mode |-> md, rng |-> rng,
                        _historical_returns |-> <<>>, _block_returns |-> <<>>,
                        log |-> <<>>]]

\* A generate call yields the stream after it, the matrix, for each column the
\* assignments that wrote it, in program order, and the exception that left it
_generate_lognormal(self, n_paths, n_years) ==
    LET mu == 700
        sigma == 1500
        z == standard_normal(self.rng, n_paths, n_years)
    IN  [rng |-> z.rng,
         ret |-> [i \in 1..n_paths |-> [j \in 1..n_years |-> mu + sigma * z.ret[i][j]]],
         fill |-> [j \in 1..n_years |-> <<"normal">>],
         raised |-> ""]

\* Mutant: the remainder years written to the first columns
RemainderStart_Front(n_years, remainder_years) == 0

\* returns[:, -remainder_years:]: the index the slice starts at
RemainderStart(n_years, remainder_years) == n_years - remainder_years

\* self._block_returns exists only after the bootstrap initialisation; an object
\* without it has the field empty here
_generate_bootstrap(self, n_paths, n_years) ==
    IF self._block_returns = <<>>
    THEN [rng |-> self.rng, ret |-> <<>>, fill |-> <<>>, raised |-> "AttributeError"]
    ELSE
    LET blocks_per_path == n_years \div 5
        remainder_years == n_years % 5
        n_blocks == Len(self._block_returns)
        block_indices == integers(self.rng, n_blocks, n_paths, blocks_per_path)
        all_years == self._historical_returns
        remainder_indices ==
            IF remainder_years > 0
            THEN integers(block_indices.rng, Len(all_years), n_paths, remainder_years)
            ELSE [rng |-> block_indices.rng, ret |-> <<>>]
        start == RemainderStart(n_years, remainder_years)
        in_remainder(j) == remainder_years > 0 /\ j > start /\ j <= start + remainder_years
        in_block(j) == (j - 1) \div 5 < blocks_per_path
        cell(i, j) ==
            IF in_remainder(j)
            THEN all_years[remainder_indices.ret[i][j - start] + 1]
            ELSE IF in_block(j)
            THEN self._block_returns[block_indices.ret[i][((j - 1) \div 5) + 1] + 1]
                                    [((j - 1) % 5) + 1]
            ELSE 0
    IN  [rng |-> remainder_indices.rng,
         ret |-> [i \in 1..n_paths |-> [j \in 1..n_years |-> cell(i, j)]],
         fill |-> [j \in 1..n_years |->
                     (IF in_block(j) THEN <<"block">> ELSE <<>>)
                         \o (IF in_remainder(j) THEN <<"year">> ELSE <<>>)],
         raised |-> ""]

generate(self, n_paths, n_years) ==
    IF self.mode = "lognormal"
    THEN _generate_lognormal(self, n_paths, n_years)
    ELSE _generate_bootstrap(self, n_paths, n_years)

SimIds == {1, 2}

\* The strings handed to the constructor as mode: the two modes and another one
ModeStrings == Modes \cup {"invalid"}

\* sim = MarketSimulator(params, mode) with mode drawn from M
ConstructWith(i, M) ==
    /\ sims[i] = None
    /\ \E seed \in Seeds, md \in M :
          LET new == MarketSimulator(seed, md, np_random)
          IN  /\ sims' = [sims EXCEPT ![i] = Some(new.self)]
              /\ np_random' = new.np_random
    /\ UNCHANGED policyVars
    /\ UNCHANGED engineVars

\* sim.generate(n_paths, n_years) with the shape drawn from P x Y; the harness
\* logs the call and its result
GenerateWith(i, P, Y, max) ==
    /\ sims[i] # None
    /\ Len(sims[i][1].log) < max
    /\ \E n_paths \in P, n_years \in Y :
          LET self == sims[i][1]
              g == generate(self, n_paths, n_years)
          IN  sims' = [sims EXCEPT ![i] =
                          Some([self EXCEPT !.rng = g.rng,
                                            !.log = Append(self.log,
                                                [n_paths |-> n_paths, n_years |-> n_years,
                                                 out |-> g.ret, fill |-> g.fill,
                                                 raised |-> g.raised])])]
    /\ UNCHANGED np_random
    /\ UNCHANGED policyVars
    /\ UNCHANGED engineVars

\* One of the two simulators of the harness is constructed
Construct(i) == ConstructWith(i, ModeStrings)

GenerateCall(i) == GenerateWith(i, GenPaths, GenYears, MaxGenerateCalls)

InitMarket ==
    /\ params = PortfolioParams(1000000, 6000, 50, 42)
    /\ strategy = DummyStrategy
    /\ PolicyIdle
    /\ EngineIdle
    /\ np_random \in GlobalStates
    /\ sims = [i \in SimIds |-> None]

NextMarket == \E i \in SimIds : Construct(i) \/ GenerateCall(i)

SpecMarket == InitMarket /\ [][NextMarket]_vars

----------------------------------------------------------------------------
(* Claims about the return generator *)

Sim(i) == sims[i][1]

Shapes(log) == [k \in 1..Len(log) |-> <<log[k].n_paths, log[k].n_years>>]

\* C7: two simulators constructed with the same seed and mode return the same
\* matrix from their first generate call when the two calls have the same shape
C7_SameSeedSameFirstMatrix ==
    \A i, j \in SimIds :
        (/\ sims[i] # None /\ sims[j] # None
         /\ Sim(i).seed = Sim(j).seed /\ Sim(i).mode = Sim(j).mode
         /\ Len(Sim(i).log) >= 1 /\ Len(Sim(j).log) >= 1
         /\ Shapes(Sim(i).log)[1] = Shapes(Sim(j).log)[1])
        => Sim(i).log[1].out = Sim(j).log[1].out

\* C7 witness: two bootstrap simulators with one seed each made a first call of
\* 2 paths and 7 years
C7_Witness ==
    /\ sims[1] # None /\ sims[2] # None
    /\ Sim(1).seed = Sim(2).seed
    /\ Sim(1).mode = "bootstrap" /\ Sim(2).mode = "bootstrap"
    /\ Len(Sim(1).log) >= 1 /\ Len(Sim(2).log) >= 1
    /\ Shapes(Sim(1).log)[1] = <<2, 7>> /\ Shapes(Sim(2).log)[1] = <<2, 7>>
    /\ Sim(1).log[1].out = Sim(2).log[1].out

----------------------------------------------------------------------------
(* One bootstrap simulator, called with many numbers of years *)

\* generate calls made on the bootstrap simulator
MaxBootstrapCalls == 2

\* n_years below a block, on blocks, between blocks, and the 37 of the tests
BootstrapYears == {1, 3, 5, 7, 10, 12, 37}

ConstructBootstrap == ConstructWith(1, {"bootstrap"})

BootstrapCall == GenerateWith(1, GenPaths, BootstrapYears, MaxBootstrapCalls)

NextBootstrap == ConstructBootstrap \/ BootstrapCall

SpecBootstrap == InitMarket /\ [][NextBootstrap]_vars

\* C12: every simulator object that exists has one of the two modes
C12_NoSimulatorWithInvalidMode ==
    \A i \in SimIds : sims[i] # None => Sim(i).mode \in Modes

\* C16: every bootstrap call returns n_paths rows of n_years columns; the first
\* 5 * (n_years \div 5) columns were written once, by block sampling, and the
\* other n_years % 5 columns once, by individual-year sampling
C16_BootstrapShapeAndFill ==
    \A i \in SimIds :
        (sims[i] # None /\ Sim(i).mode = "bootstrap") =>
            \A c \in 1..Len(Sim(i).log) :
                LET call == Sim(i).log[c]
                IN  /\ call.raised = ""
                    /\ Len(call.out) = call.n_paths
                    /\ \A r \in 1..call.n_paths : Len(call.out[r]) = call.n_years
                    /\ Len(call.fill) = call.n_years
                    /\ \A j \in 1..call.n_years :
                          call.fill[j] = IF j <= 5 * (call.n_years \div 5)
                                         THEN <<"block">> ELSE <<"year">>

\* C16 witness: one simulator answered a call of 37 years and a call of 3 years
C16_Witness ==
    /\ sims[1] # None
    /\ Sim(1).mode = "bootstrap"
    /\ Len(Sim(1).log) = 2
    /\ Sim(1).log[1].n_years = 37 /\ Sim(1).log[1].n_paths = 2
    /\ Sim(1).log[1].fill[35] = <<"block">> /\ Sim(1).log[1].fill[36] = <<"year">>
    /\ Sim(1).log[2].n_years = 3
    /\ Sim(1).log[2].fill[1] = <<"year">>

----------------------------------------------------------------------------
(* First call on a freshly constructed policy, over the ranges of the
   property test: balance in [0, 10,000,000], inflation in [-10%, 20%],
   age in [18, 120], init_balance >= 1 *)

MaxFuzzCalls == 1

\* portfolio_params_strategy
FuzzParams ==
    { PortfolioParams(b, e, 50, 42) : b \in {1, 1000, 1000000}, e \in {0, 6000, 10000} }

\* year_state_strategy
FuzzStates ==
    { YearState(2024, a, b, i, None) :
        a \in {18, 65, 120}, b \in {0, 1, 1000, 200000, 3000000},
        i \in {0 - 1000, 0, 2000} }

CallFuzz == PolicyCall(FuzzStates, MaxFuzzCalls)

InitFuzz ==
    /\ params \in FuzzParams
    /\ strategy \in BuiltinPolicies
    /\ PolicyIdle
    /\ EngineIdle
    /\ MarketIdle

NextFuzz == CallFuzz

SpecFuzz == InitFuzz /\ [][NextFuzz]_vars

\* test_withdrawal_reasonable_bounds: the first call of a fresh policy with a
\* present state
FirstCall ==
    /\ Len(call_log) = 1
    /\ lastcall # None
    /\ lastcall[1].state # None
    /\ lastcall[1].raised = ""

\* C21: the first withdrawal of a freshly constructed policy, for a state with
\* balance in [0, 10,000,000] and inflation in [-10%, 20%] and params with
\* init_balance >= 1, is at most state.balance for ConstantPercentageStrategy and
\* EndowmentStrategy and at most init_balance for every other built-in policy.
C21_WithdrawalReasonableBounds ==
    FirstCall =>
        LET max_reasonable ==
                IF strategy.kind \in {"ConstantPercentageStrategy", "EndowmentStrategy"}
                THEN lastcall[1].state[1].balance
                ELSE params.init_balance
        IN  lastcall[1].ret <= max_reasonable

----------------------------------------------------------------------------
(* Sequences of calls on one GuytonKlingerStrategy; every call is logged with
   the policy object before and after it *)

MaxGKCalls == 2

GKParams == { PortfolioParams(100000, 6000, 50, 42) }

\* years in and out of sequence; balances that are empty, below 80% of the
\* initial balance, above 120% of it twice; deflation, inflation and the
\* inflation of -100% no validator excludes
GKStates ==
    { YearState(y, 65, b, i, None) :
        y \in {2024, 2025, 2027}, b \in {0, 70000, 121000, 130000},
        i \in {0 - 10000, 0 - 5000, 5000} }

CallGK ==
    /\ Len(call_log) < MaxGKCalls
    /\ \E state \in {None} \cup {Some(s) : s \in GKStates} :
          LET r == GuytonKlinger_calculate_withdrawal(strategy, state, params)
          IN  /\ strategy' = r.self
              /\ lastcall' = Some([state |-> state, ret |-> r.ret, raised |-> r.raised])
              /\ call_log' = Append(call_log,
                                    [state |-> state, before |-> strategy,
                                     after |-> r.self, ret |-> r.ret,
                                     raised |-> r.raised])
    /\ UNCHANGED <<params>>
    /\ UNCHANGED engineVars
    /\ UNCHANGED marketVars

InitGK ==
    /\ params \in GKParams
    /\ strategy \in { GuytonKlingerStrategy(500, 2000, 1000, 1000),
                      GuytonKlingerStrategy(500, 2000, 2000, 500) }
    /\ PolicyIdle
    /\ EngineIdle
    /\ MarketIdle

NextGK == CallGK

SpecGK == InitGK /\ [][NextGK]_vars

----------------------------------------------------------------------------
(* Claims about GuytonKlingerStrategy *)

\* The logged calls with a present state
PresentCalls == { k \in 1..Len(call_log) : call_log[k].state # None }

\* base_withdrawal as a call uses it: init_balance * initial_rate until a cut
\* or a raise replaces it
BaseIn(e) ==
    IF e.before._base_withdrawal = None
    THEN MulDiv(params.init_balance, e.before.initial_rate, BPS)
    ELSE e.before._base_withdrawal[1]

\* adj = base_withdrawal * cumulative_inflation of a call
AdjIn(e) == MulDiv(BaseIn(e), e.after._cumulative_inflation, BPS)

\* rate = adj / balance above initial_rate * (1 + guard_pct), and the balance
\* at most 1.2 * init_balance
CutApplies(e) ==
    /\ AdjIn(e) * BPS >
          MulDiv(e.before.initial_rate, BPS + e.before.guard_pct, BPS) * e.state[1].balance
    /\ e.state[1].balance <= MulDiv(params.init_balance, 12000, BPS)

\* rate below initial_rate * (1 - guard_pct), and the balance at least
\* 0.8 * init_balance
RaiseApplies(e) ==
    /\ AdjIn(e) * BPS <
          MulDiv(e.before.initial_rate, BPS - e.before.guard_pct, BPS) * e.state[1].balance
    /\ e.state[1].balance >= MulDiv(params.init_balance, 8000, BPS)

\* C22: a call with a present state and a balance > 0 returns adj * (1 - cut_pct)
\* exactly when the rate is above the upper guardrail and the balance is at most
\* 1.2 * init_balance, adj * (1 + raise_pct) exactly when the rate is below the
\* lower guardrail and the balance is at least 0.8 * init_balance, and adj in
\* every other case; a cut and a raise never apply in the same call.
C22_GuardrailAdjustment ==
    \A k \in PresentCalls :
        LET e == call_log[k]
        IN  e.state[1].balance > 0 =>
                /\ ~(CutApplies(e) /\ RaiseApplies(e))
                /\ e.raised = ""
                /\ e.ret = IF CutApplies(e)
                           THEN MulDiv(AdjIn(e), BPS - e.before.cut_pct, BPS)
                           ELSE IF RaiseApplies(e)
                           THEN MulDiv(AdjIn(e), BPS + e.before.raise_pct, BPS)
                           ELSE AdjIn(e)

\* A logged call that applied a cut or a raise
Adjusts(e) ==
    /\ e.state # None
    /\ e.state[1].balance > 0
    /\ e.raised = ""
    /\ CutApplies(e) \/ RaiseApplies(e)

\* A logged call whose rate lies inside both guardrails
InsideGuardrails(e) ==
    /\ e.state # None
    /\ e.state[1].balance > 0
    /\ AdjIn(e) * BPS <=
          MulDiv(e.before.initial_rate, BPS + e.before.guard_pct, BPS) * e.state[1].balance
    /\ AdjIn(e) * BPS >=
          MulDiv(e.before.initial_rate, BPS - e.before.guard_pct, BPS) * e.state[1].balance

\* A call that returned an adjusted amount, followed by a call for the
\* following year whose rate lies inside both guardrails
FollowingYearInside(k) ==
    /\ k >= 2
    /\ call_log[k - 1].state # None
    /\ call_log[k - 1].state[1].balance > 0
    /\ call_log[k - 1].raised = ""
    /\ InsideGuardrails(call_log[k])
    /\ call_log[k].state[1].year = call_log[k - 1].state[1].year + 1

\* C23: base_withdrawal is init_balance * initial_rate from the first call on
\* and changes only in a call that applies a cut or a raise, where it becomes
\* the returned amount divided by the cumulative inflation; after a call that
\* returned an adjusted amount A the call for the following year with inflation
\* i and a rate inside both guardrails returns A * (1 + i) (to the rounding of
\* whole dollars); a call with an absent state returns the current base and
\* leaves the policy as it was.
C23_BaseWithdrawalChangesOnlyOnAdjustment ==
    \A k \in 1..Len(call_log) :
        LET e == call_log[k]
        IN  /\ e.after._base_withdrawal =
                  IF Adjusts(e)
                  THEN Some(MulDiv(e.ret, BPS, e.after._cumulative_inflation))
                  ELSE Some(BaseIn(e))
            /\ k = 1 => BaseIn(e) = MulDiv(params.init_balance, e.before.initial_rate, BPS)
            /\ FollowingYearInside(k) =>
                  /\ e.raised = ""
                  /\ Abs(e.ret - MulDiv(call_log[k - 1].ret,
                                        BPS + e.state[1].inflation, BPS)) <= 5
            /\ e.state = None =>
                  /\ e.raised = ""
                  /\ e.ret = BaseIn(e)
                  /\ e.after = [e.before EXCEPT !._base_withdrawal = Some(BaseIn(e))]

\* a cut or a raise, then the following year inside the guardrails, then a call
\* with an absent state
C23_Witness ==
    /\ Len(call_log) >= 2
    /\ Adjusts(call_log[1])
    /\ call_log[1].after._cumulative_inflation # BPS
    /\ FollowingYearInside(2)
    /\ call_log[2].ret > 0

\* The last year seen before call k: the year of the latest earlier call with
\* a present state
LastSeen(k) ==
    LET earlier == { j \in PresentCalls : j < k }
    IN  IF earlier = {} THEN None
        ELSE Some(call_log[SetMax(earlier)].state[1].year)

\* C24: the cumulative inflation multiplier is multiplied by 1 + state.inflation
\* on the first call with a present state and on every later call whose year is
\* the last seen year + 1, and is unchanged on every other call with a present
\* state; the last seen year becomes state.year on every call with a present
\* state, also when the call returns 0 for a balance <= 0.
C24_InflationCompoundsOnConsecutiveYears ==
    \A k \in PresentCalls :
        LET e == call_log[k]
            st == e.state[1]
            compounds == \/ LastSeen(k) = None
                         \/ /\ LastSeen(k) # None
                            /\ st.year = LastSeen(k)[1] + 1
        IN  /\ e.before._last_year = LastSeen(k)
            /\ e.after._last_year = Some(st.year)
            /\ e.after._cumulative_inflation =
                  IF compounds
                  THEN MulDiv(e.before._cumulative_inflation, BPS + st.inflation, BPS)
                  ELSE e.before._cumulative_inflation
            /\ st.balance <= 0 => e.ret = 0 /\ e.raised = ""

\* a first call that compounds and returns 0 for an empty balance, then a call
\* for a year out of sequence that leaves the multiplier alone
C24_Witness ==
    /\ Len(call_log) >= 2
    /\ call_log[1].state # None
    /\ call_log[1].state[1].balance = 0
    /\ call_log[1].after._cumulative_inflation # BPS
    /\ call_log[2].state # None
    /\ call_log[2].state[1].year # call_log[1].state[1].year + 1
    /\ call_log[2].after._cumulative_inflation = call_log[1].after._cumulative_inflation

----------------------------------------------------------------------------
(* The percentage of VariablePercentageWithdrawal by age *)

\* The age table of the allocation a call selects, its keys read as ints
SelectedAgeTable ==
    LET key == _get_equity_allocation_key(strategy, params.equity_pct).ret
        table == IntKeyed(strategy.vpw_tables)
    IN  DictGet(table, key)

\* The percentage of an age in an age table, in basis points, before the cap:
\* the value of the age, of the nearest end of the table, or the linear
\* interpolation between the two nearest ages around it
TablePercentage(age_table, age) ==
    LET keys == SeqToSet(DictKeys(age_table))
        lower_age == SetMax({k \in keys : k < age})
        upper_age == SetMin({k \in keys : k > age})
    IN  IF age \in keys THEN DictGet(age_table, age)
        ELSE IF age < SetMin(keys) THEN DictGet(age_table, SetMin(keys))
        ELSE IF age > SetMax(keys) THEN DictGet(age_table, SetMax(keys))
        ELSE DictGet(age_table, lower_age)
                + MulDiv(DictGet(age_table, upper_age) - DictGet(age_table, lower_age),
                         age - lower_age, upper_age - lower_age)

\* C25: for a non-empty age table the percentage of a call is the table value
\* of the age, the value at the minimum or maximum age for an age outside the
\* table, and otherwise the linear interpolation between the two nearest
\* bracketing ages, capped at 10%: the call returns that percentage of
\* state.balance (of init_balance at age 65 for an absent state), at most 10% of
\* it, and never the 4% fallback.
C25_AgeLookupCappedAtTenPercent ==
    (/\ Called
     /\ strategy.kind = "VariablePercentageWithdrawal"
     /\ strategy.vpw_tables # <<>>
     /\ SelectedAgeTable # <<>>) =>
        LET age == IF lastcall[1].state = None THEN 65 ELSE lastcall[1].state[1].age
            bal == IF lastcall[1].state = None THEN params.init_balance
                   ELSE lastcall[1].state[1].balance
            pct == Min(TablePercentage(SelectedAgeTable, age), 1000)
        IN  /\ lastcall[1].raised = ""
            /\ lastcall[1].ret = MulDiv(bal, pct, BPS)
            /\ lastcall[1].ret <= MulDiv(bal, 1000, BPS)

----------------------------------------------------------------------------
(* The windows of the bootstrap *)

\* The 5 consecutive years of the pool that start at year w
Window(hist, w) == SubSeq(hist, w, w + 4)

\* C26: a bootstrap simulator holds exactly n_hist - 4 windows, the 5-year
\* windows of the historical pool at every start year in the original order
\* (96 for the pool of 100 years); each aligned 5-column block of every output
\* row is one of these windows, and every value of an output matrix is a value
\* of the pool.
C26_BlocksAreHistoricalWindows ==
    \A i \in SimIds :
        (sims[i] # None /\ Sim(i).mode = "bootstrap") =>
            LET hist == Sim(i)._historical_returns
            IN  /\ Len(hist) = 100
                /\ Len(Sim(i)._block_returns) = Len(hist) - 4
                /\ Len(Sim(i)._block_returns) = 96
                /\ \A w \in 1..(Len(hist) - 4) :
                      Sim(i)._block_returns[w] = Window(hist, w)
                /\ \A c \in 1..Len(Sim(i).log) :
                      LET call == Sim(i).log[c]
                      IN  \A r \in 1..Len(call.out) :
                            /\ \A b \in 0..((call.n_years \div 5) - 1) :
                                  \E w \in 1..(Len(hist) - 4) :
                                      SubSeq(call.out[r], 5 * b + 1, 5 * b + 5)
                                          = Window(hist, w)
                            /\ \A j \in 1..Len(call.out[r]) :
                                  \E y \in 1..Len(hist) : call.out[r][j] = hist[y]

\* C26 witness: a call of 2 paths and 12 years, two blocks and two single years
\* per row, whose two blocks of the first row are different windows
C26_Witness ==
    /\ sims[1] # None
    /\ Sim(1).mode = "bootstrap"
    /\ Len(Sim(1).log) >= 1
    /\ Sim(1).log[1].n_years = 12 /\ Sim(1).log[1].n_paths = 2
    /\ SubSeq(Sim(1).log[1].out[1], 1, 5) # SubSeq(Sim(1).log[1].out[1], 6, 10)

----------------------------------------------------------------------------
(* Claims about the calls the engine makes and the withdrawals it records *)

IsPolicyCall(e) == e.op = "calculate_withdrawal"

\* The policy calls of the run so far, in the order they were made
PolicyCalls == SelectSeq(trace, IsPolicyCall)

\* C27: in each run of either engine generate is called exactly once, before
\* the first policy call; the policy is then called exactly once per (path,
\* year), all years of a path in ascending order before any year of the next path.
C27_CallOrder ==
    /\ pc = "start" => trace = <<>>
    /\ pc \in {"loop", "done"} =>
          LET n_paths == Len(returns)
              n_years == Len(returns[1])
          IN  /\ trace[1].op = "generate"
              /\ trace[1].a = n_paths /\ trace[1].b = n_years
              /\ \A i \in 2..Len(trace) : trace[i].op # "generate"
              /\ Len(PolicyCalls) = path_idx * n_years + year_idx
              /\ \A k \in 1..Len(PolicyCalls) :
                    /\ PolicyCalls[k].path = (k - 1) \div n_years
                    /\ PolicyCalls[k].year = (k - 1) % n_years
              /\ pc = "done" => Len(PolicyCalls) = n_paths * n_years

\* C27 witness: a finished run of 2 paths and 2 years in each engine
C27_Witness ==
    /\ pc = "done"
    /\ Len(returns) = 2 /\ Len(returns[1]) = 2
    /\ Len(PolicyCalls) = 4
    /\ PolicyCalls[2].path = 0 /\ PolicyCalls[2].year = 1
    /\ PolicyCalls[3].path = 1 /\ PolicyCalls[3].year = 0

\* The withdrawal of a built-in policy called without a state
StatelessWithdrawal(self, p) ==
    CASE self.kind = "DummyStrategy" -> 0
      [] self.kind = "FourPercentRule" -> MulDiv(p.init_balance, 400, BPS)
      [] self.kind = "ConstantPercentageStrategy" ->
            MulDiv(p.init_balance, self.percentage, BPS)
      [] self.kind = "EndowmentStrategy" ->
            MulDiv(p.init_balance, self.alpha + self.beta, BPS)
      [] self.kind = "GuytonKlingerStrategy" ->
            MulDiv(p.init_balance, self.initial_rate, BPS)
      [] self.kind = "VariablePercentageWithdrawal" ->
            MulDiv(p.init_balance,
                   DictGet(DictGet(self.vpw_tables,
                                   NearestKey(SeqToSet(DictKeys(self.vpw_tables)),
                                              p.equity_pct)),
                           65),
                   BPS)

StartBalance(pi, y) ==
    IF y = 0 THEN params.init_balance ELSE RecordedBalance(pi, y - 1)

\* The tax of a recorded year
TaxOf(pi, y) ==
    LET w == trace[WithdrawalAt(pi, y)].ret
    IN  IF w > 0 THEN TaxEngine(tax_engine, w, StartBalance(pi, y) - w) ELSE 0

\* Withdrawal plus tax above the balance the year started from
Overdrawn(pi, y) ==
    trace[WithdrawalAt(pi, y)].ret + TaxOf(pi, y) > StartBalance(pi, y)

\* (1 - fees_bps / 10000) * (1 + market_return) >= 0
FactorNonNegative(pi, y) ==
    (BPS - params.fees_bps) * (BPS + returns[pi + 1][y + 1]) >= 0

\* C29: in both engines a year whose withdrawal plus tax exceeds its starting
\* balance ends with balance 0 exactly when the factor (1 - fees_bps/10000) *
\* (1 + market_return) is >= 0, and strictly positive when the factor is
\* negative; with returns >= -100% and fees_bps <= 10000 a balance that reached
\* 0 is 0 in every later year of the path.
C29_OverdrawnYearEndsAtZero ==
    \A c \in Recorded :
        LET pi == c[1]
            y == c[2]
        IN  /\ Overdrawn(pi, y) =>
                  /\ RecordedBalance(pi, y) = 0 <=> FactorNonNegative(pi, y)
                  /\ ~FactorNonNegative(pi, y) => RecordedBalance(pi, y) > 0
            /\ (/\ params.fees_bps <= BPS
                /\ \A j \in 1..Len(returns[pi + 1]) : returns[pi + 1][j] >= 0 - BPS
                /\ \E y0 \in 0..(y - 1) : RecordedBalance(pi, y0) = 0)
                  => RecordedBalance(pi, y) = 0

\* C29 witness: in one run an overdrawn first year ended at 0 and the second
\* year of the path, with a withdrawal again, stayed at 0, while the first year
\* of the next path, overdrawn under a return of -150%, ended positive
C29_Witness ==
    /\ pc = "done"
    /\ Len(returns) = 2 /\ Len(returns[1]) = 2
    /\ Overdrawn(0, 0)
    /\ FactorNonNegative(0, 0)
    /\ RecordedBalance(0, 0) = 0
    /\ trace[WithdrawalAt(0, 1)].ret > 0
    /\ RecordedBalance(0, 1) = 0
    /\ Overdrawn(1, 0)
    /\ returns[2][1] < 0 - BPS
    /\ RecordedBalance(1, 0) > 0

\* C30: run records as withdrawal_nominal of a year exactly the value the policy
\* returned for it, also when that value exceeds the balance the year started
\* from or that balance is already 0; the floor at 0 applies to the balance only.
C30_WithdrawalRecordedUncapped ==
    (mode = "run" /\ pc \in {"loop", "done"}) =>
        \A c \in Recorded :
            LET rec == IF c[1] < Len(results) THEN results[c[1] + 1][c[2] + 1]
                       ELSE path_results[c[2] + 1]
            IN  /\ rec.withdrawal_nominal = Some(trace[WithdrawalAt(c[1], c[2])].ret)
                /\ rec.balance >= 0

\* C30 witness: a finished run recorded a withdrawal of 2,000,000 in a first
\* year that started from 1,000,000 and in a second year that started from 0
C30_Witness ==
    /\ pc = "done"
    /\ mode = "run"
    /\ Len(results[1]) = 2
    /\ results[1][1].withdrawal_nominal = Some(2000000)
    /\ results[1][1].balance = 0
    /\ results[1][2].withdrawal_nominal = Some(2000000)
    /\ results[1][2].balance = 0

====
